---- MODULE Spec2Model ----
(***************************************************************************)
(* A model of coderank.py: module identity resolution, relative-import     *)
(* resolution, dependency-graph construction, PageRank and the CodeRank    *)
(* combination.                                                            *)
(*                                                                         *)
(* Strings are sequences of one-character strings, so that prefix tests,   *)
(* splitting and joining are computed as the code computes them.  Scores   *)
(* are fixed-point numbers: the integer v stands for the real v / SCALE.   *)
(***************************************************************************)
EXTENDS Integers, Sequences, FiniteSets, TLC

\* ------------------------------------------------------------------------
\* Strings
\* ------------------------------------------------------------------------

\* The value Python's None takes in a place where a string is expected.
None == << "<None>" >>

SEP == "/"
DOT == "."

RECURSIVE SplitAcc(_, _, _, _, _)
SplitAcc(s, sep, i, cur, acc) ==
    IF i > Len(s) THEN Append(acc, cur)
    ELSE IF s[i] = sep THEN SplitAcc(s, sep, i + 1, <<>>, Append(acc, cur))
    ELSE SplitAcc(s, sep, i + 1, Append(cur, s[i]), acc)

\* str.split(sep): always at least one part, empty parts are kept
Split(s, sep) == SplitAcc(s, sep, 1, <<>>, <<>>)

RECURSIVE Join(_, _)
\* sep.join(parts)
Join(parts, sep) ==
    IF parts = <<>> THEN <<>>
    ELSE IF Len(parts) = 1 THEN parts[1]
    ELSE parts[1] \o <<sep>> \o Join(Tail(parts), sep)

\* s.startswith(p)
StartsWith(s, p) == Len(p) <= Len(s) /\ SubSeq(s, 1, Len(p)) = p

\* s.rfind(c), 1-based, 0 when c does not occur
RFind(s, c) ==
    LET I == {i \in 1..Len(s) : s[i] = c}
    IN  IF I = {} THEN 0 ELSE CHOOSE i \in I : \A j \in I : j <= i

\* [x for x in xs if x]
RECURSIVE NonEmpty(_)
NonEmpty(xs) ==
    IF xs = <<>> THEN <<>>
    ELSE IF Head(xs) = <<>> THEN NonEmpty(Tail(xs))
    ELSE <<Head(xs)>> \o NonEmpty(Tail(xs))

\* ------------------------------------------------------------------------
\* os.path (POSIX) as path_to_module_fqn uses it
\* ------------------------------------------------------------------------

PARDIR == <<DOT, DOT>>
CURDIR == <<DOT>>

RECURSIVE NormComps(_, _, _)
\* the loop of posixpath.normpath over the components of the path
NormComps(comps, new_comps, rooted) ==
    IF comps = <<>> THEN new_comps
    ELSE LET comp == Head(comps)
             rest == Tail(comps)
         IN  IF comp = <<>> \/ comp = CURDIR
             THEN NormComps(rest, new_comps, rooted)
             ELSE IF comp # PARDIR
                     \/ (~rooted /\ new_comps = <<>>)
                     \/ (new_comps # <<>> /\ new_comps[Len(new_comps)] = PARDIR)
             THEN NormComps(rest, Append(new_comps, comp), rooted)
             ELSE IF new_comps # <<>>
             THEN NormComps(rest, SubSeq(new_comps, 1, Len(new_comps) - 1), rooted)
             ELSE NormComps(rest, new_comps, rooted)

\* os.path.normpath(os.path.abspath(path)) for a path that is absolute
normpath(path) ==
    IF path = <<>> THEN CURDIR
    ELSE LET initial_slashes ==
                 IF ~StartsWith(path, <<SEP>>) THEN 0
                 ELSE IF StartsWith(path, <<SEP, SEP>>)
                         /\ ~StartsWith(path, <<SEP, SEP, SEP>>) THEN 2
                 ELSE 1
             comps == NormComps(Split(path, SEP), <<>>, initial_slashes > 0)
             joined == Join(comps, SEP)
             full == IF initial_slashes = 2 THEN <<SEP, SEP>> \o joined
                     ELSE IF initial_slashes = 1 THEN <<SEP>> \o joined
                     ELSE joined
         IN  IF full = <<>> THEN CURDIR ELSE full

\* length of the longest common prefix of two component lists
RECURSIVE CommonLen(_, _)
CommonLen(xs, ys) ==
    IF xs = <<>> \/ ys = <<>> THEN 0
    ELSE IF Head(xs) # Head(ys) THEN 0
    ELSE 1 + CommonLen(Tail(xs), Tail(ys))

\* os.path.relpath(path, start), both absolute
relpath(path, start) ==
    LET start_list == NonEmpty(Split(normpath(start), SEP))
        path_list == NonEmpty(Split(normpath(path), SEP))
        i == CommonLen(start_list, path_list)
        rel_list == [k \in 1..(Len(start_list) - i) |-> PARDIR]
                    \o SubSeq(path_list, i + 1, Len(path_list))
    IN  IF rel_list = <<>> THEN CURDIR ELSE Join(rel_list, SEP)

\* os.path.splitext(p)[0]: the extension starts at the last dot of the last
\* component, unless that component has only dots before it
splitext(p) ==
    LET sepIndex == RFind(p, SEP)
        dotIndex == RFind(p, DOT)
    IN  IF dotIndex > sepIndex
           /\ \E k \in (sepIndex + 1)..(dotIndex - 1) : p[k] # DOT
        THEN SubSeq(p, 1, dotIndex - 1)
        ELSE p

INIT_NAME == <<"_", "_", "i", "n", "i", "t", "_", "_">>

path_to_module_fqn(file_path_arg, abs_repo_path_arg) ==
    LET fp == normpath(file_path_arg)
        rp == normpath(abs_repo_path_arg)
    IN  IF ~StartsWith(fp, rp) THEN None
        ELSE LET relative_path == relpath(fp, rp)
                 module_path_no_ext == splitext(relative_path)
                 parts == Split(module_path_no_ext, SEP)
             IN  IF parts[Len(parts)] = INIT_NAME
                 THEN IF Len(parts) = 1 THEN None
                      ELSE Join(SubSeq(parts, 1, Len(parts) - 1), DOT)
                 ELSE Join(parts, DOT)

Falsy(s) == s = None \/ s = <<>>

\* ------------------------------------------------------------------------
\* Relative imports
\* ------------------------------------------------------------------------

\* xs[:-n] for n >= 0 (Python: xs[:-0] is the empty list)
DropLast(xs, n) ==
    IF n = 0 THEN <<>>
    ELSE IF n >= Len(xs) THEN <<>>
    ELSE SubSeq(xs, 1, Len(xs) - n)

\* resolve_relative_import with the level test off by one (>= for >)
resolve_relative_import_ge(cur_fqn, level, module_in_from_statement) ==
    IF Falsy(cur_fqn)
    THEN IF level > 0 /\ ~Falsy(module_in_from_statement)
         THEN module_in_from_statement
         ELSE None
    ELSE LET path_parts == Split(cur_fqn, DOT)
         IN  IF level >= Len(path_parts) THEN None
             ELSE LET base_module_parts == DropLast(path_parts, level)
                  IN  IF ~Falsy(module_in_from_statement)
                      THEN Join(base_module_parts
                                \o Split(module_in_from_statement, DOT), DOT)
                      ELSE IF base_module_parts = <<>> THEN None
                      ELSE Join(base_module_parts, DOT)

resolve_relative_import(cur_fqn, level, module_in_from_statement) ==
    IF Falsy(cur_fqn)
    THEN IF level > 0 /\ ~Falsy(module_in_from_statement)
         THEN module_in_from_statement
         ELSE None
    ELSE LET path_parts == Split(cur_fqn, DOT)
         IN  IF level > Len(path_parts) THEN None
             ELSE LET base_module_parts == DropLast(path_parts, level)
                  IN  IF ~Falsy(module_in_from_statement)
                      THEN Join(base_module_parts
                                \o Split(module_in_from_statement, DOT), DOT)
                      ELSE IF base_module_parts = <<>> THEN None
                      ELSE Join(base_module_parts, DOT)

\* An import statement of a syntax tree: kind "Import" (names: the dotted
\* names imported) or "ImportFrom" (module, level, names).
ImportNode(names) ==
    [kind |-> "Import", module |-> None, level |-> 0, names |-> names]
ImportFromNode(module, level, names) ==
    [kind |-> "ImportFrom", module |-> module, level |-> level, names |-> names]

\* imports_of_node adding the package alone for a statement without module
imports_of_node_package_only(n, cur_fqn) ==
    IF n.kind = "Import" THEN n.names
    ELSE IF n.level > 0
    THEN LET rb == resolve_relative_import(cur_fqn, n.level, n.module)
         IN  IF Falsy(rb) THEN {} ELSE {rb}
    ELSE IF ~Falsy(n.module) THEN {n.module}
    ELSE {}

\* what one statement adds to the imports set of get_imports_from_file
imports_of_node(n, cur_fqn) ==
    IF n.kind = "Import" THEN n.names
    ELSE IF n.level > 0
    THEN LET rb == resolve_relative_import(cur_fqn, n.level, n.module)
         IN  IF Falsy(rb) THEN {}
             ELSE IF ~Falsy(n.module) THEN {rb}
             ELSE {rb \o <<DOT>> \o name : name \in n.names}
    ELSE IF ~Falsy(n.module) THEN {n.module}
    ELSE {}

\* lines 119-147 applied to the statements of a file that does not parse
get_imports_from_file_unchecked(content, cur_fqn) ==
    UNION {imports_of_node(n, cur_fqn) : n \in content.stmts}

\* A file's content: whether it can be read and parsed, and its statements.
get_imports_from_file(content, cur_fqn) ==
    IF ~content.parses THEN {}
    ELSE UNION {imports_of_node(n, cur_fqn) : n \in content.stmts}

\* ------------------------------------------------------------------------
\* Dictionaries (sets of <<key, value>> with one value per key)
\* ------------------------------------------------------------------------

DictSet(d, k, v) == {e \in d : e[1] # k} \cup {<<k, v>>}
DictHas(d, k) == \E e \in d : e[1] = k
\* d.get(k)
DictGet(d, k) ==
    IF DictHas(d, k) THEN (CHOOSE e \in d : e[1] = k)[2] ELSE None

\* ------------------------------------------------------------------------
\* networkx.DiGraph: nodes, and edges <<u, v, weight>> with one weight per
\* ordered pair
\* ------------------------------------------------------------------------

DiGraph == [nodes |-> {}, edges |-> {}]

add_node(G, n) == [G EXCEPT !.nodes = @ \cup {n}]

\* add_edge that drops the edges u had before
add_edge_replacing(G, u, v, w) ==
    [nodes |-> G.nodes \cup {u, v},
     edges |-> {e \in G.edges : e[1] # u} \cup {<<u, v, w>>}]

add_edge(G, u, v, w) ==
    [nodes |-> G.nodes \cup {u, v},
     edges |-> {e \in G.edges : ~(e[1] = u /\ e[2] = v)} \cup {<<u, v, w>>}]

RECURSIVE add_nodes_from(_, _)
add_nodes_from(G, ns) ==
    IF ns = {} THEN G
    ELSE LET n == CHOOSE n \in ns : TRUE
         IN  add_nodes_from(add_node(G, n), ns \ {n})

\* ------------------------------------------------------------------------
\* Edge classification of analyze_repo (lines 408-433)
\* ------------------------------------------------------------------------

\* lines 416-424 with the two tests in the other order
target_node_fqn_internal_first(imported_fqn_full, externals, internals) ==
    LET imported_root == Split(imported_fqn_full, DOT)[1]
    IN  IF imported_fqn_full \in internals THEN imported_fqn_full
        ELSE IF imported_root \in externals THEN imported_root
        ELSE None

\* the target node of a dependency identifier, or None
target_node_fqn(imported_fqn_full, externals, internals) ==
    LET imported_root == Split(imported_fqn_full, DOT)[1]
    IN  IF imported_root \in externals THEN imported_root
        ELSE IF imported_fqn_full \in internals THEN imported_fqn_full
        ELSE None

is_external(imported_fqn_full, externals) ==
    Split(imported_fqn_full, DOT)[1] \in externals

\* line 429 and 431 without the self-loop test
adds_edge_unguarded(cur_fqn, target) == ~Falsy(target)

\* lines 429 and 431: an edge is added for a target other than the source
adds_edge(cur_fqn, target) == ~Falsy(target) /\ cur_fqn # target

\* line 433 with the endpoints in the order of line 432
imported_by_edge_untransposed(cur_fqn, target) == <<cur_fqn, target>>

\* line 433: the endpoints of the imported-by edge
imported_by_edge(cur_fqn, target) == <<target, cur_fqn>>

\* ------------------------------------------------------------------------
\* nx.pagerank in fixed-point arithmetic
\* ------------------------------------------------------------------------

\* resolution of a score: the integer v stands for v / SCALE
SCALE == 1000000
\* the tolerance of the convergence test, in units of 1 / SCALE: tol = 1e-8
\* is below the resolution and below the rounding noise of the truncating
\* arithmetic, so the test uses a tolerance above that noise
TolUnits == 8
\* max_iter of both nx.pagerank calls
MAX_ITER == 200

RECURSIVE SumOver(_, _)
\* the sum of f[n] over n in S
SumOver(S, f) ==
    IF S = {} THEN 0
    ELSE LET n == CHOOSE n \in S : TRUE
         IN  f[n] + SumOver(S \ {n}, f)

RECURSIVE SumWeights(_)
SumWeights(es) ==
    IF es = {} THEN 0
    ELSE LET e == CHOOSE e \in es : TRUE
         IN  e[3] + SumWeights(es \ {e})

\* total weight of the edges leaving n
OutWeight(G, n) == SumWeights({e \in G.edges : e[1] = n})

Dangling(G) == {n \in G.nodes : OutWeight(G, n) = 0}

RECURSIVE Inflow(_, _, _)
\* sum over the edges es (all into one node) of xs[source] * weight / S[source]
Inflow(G, xs, es) ==
    IF es = {} THEN 0
    ELSE LET e == CHOOSE e \in es : TRUE
         IN  (xs[e[1]] * e[3]) \div OutWeight(G, e[1])
             + Inflow(G, xs, es \ {e})

Abs(i) == IF i < 0 THEN -i ELSE i

\* the start vector of nx.pagerank: 1.0 / N for every node
uniform_start(G) == [n \in G.nodes |-> SCALE \div Cardinality(G.nodes)]

\* lines 454 and 473 without the division by len(G)
fallback_ranks_undivided(G) == [n \in G.nodes |-> SCALE]

\* lines 454 and 473: {node: 1.0 / len(G) for node in G.nodes()}
fallback_ranks(G) == [n \in G.nodes |-> SCALE \div Cardinality(G.nodes)]

\* one power iteration that drops the mass of the dangling nodes
power_step_no_dangling(G, xs, alpha) ==
    LET N == Cardinality(G.nodes)
    IN  [m \in G.nodes |->
            (alpha.num * (N * Inflow(G, xs, {e \in G.edges : e[2] = m})))
                \div (alpha.den * N)
            + ((alpha.den - alpha.num) * SCALE) \div (alpha.den * N)]

\* one power iteration:
\* x = alpha * (x @ A + sum(x[dangling]) / N) + (1 - alpha) / N
power_step(G, xs, alpha) ==
    LET N == Cardinality(G.nodes)
        danglesum == SumOver(Dangling(G), xs)
    IN  [m \in G.nodes |->
            (alpha.num * (N * Inflow(G, xs, {e \in G.edges : e[2] = m})
                          + danglesum)) \div (alpha.den * N)
            + ((alpha.den - alpha.num) * SCALE) \div (alpha.den * N)]

\* err = sum(|x - xlast|)
l1_error(G, xs, xlast) ==
    SumOver(G.nodes, [n \in G.nodes |-> Abs(xs[n] - xlast[n])])

\* err < N * tol
converged(G, xs, xlast) ==
    l1_error(G, xs, xlast) < Cardinality(G.nodes) * TolUnits

\* pagerank.get(module_fqn, 0)
score_of(pagerank, module_fqn) ==
    IF module_fqn \in DOMAIN pagerank THEN pagerank[module_fqn] ELSE 0

\* line 482 with one of the two scores left out
combine_scores_imports_only(score_being_imported, score_importing_others) ==
    score_being_imported

\* line 482
combine_scores(score_being_imported, score_importing_others) ==
    score_being_imported + score_importing_others

\* ------------------------------------------------------------------------
\* extract_python_symbols
\* ------------------------------------------------------------------------

\* A declaration of a syntax tree: a class or a function (def or async
\* def), its name and the declarations directly in its body.
ClassDef(name, body) == [kind |-> "ClassDef", name |-> name, body |-> body]
FunctionDef(name, body) ==
    [kind |-> "FunctionDef", name |-> name, body |-> body]

RECURSIVE walk(_)
\* ast.walk: the nodes and all their descendants
walk(nodes) ==
    IF nodes = {} THEN {}
    ELSE nodes \cup walk(UNION {n.body : n \in nodes})

\* an entry of python_symbols_db
symbol_info(type, module_fqn, f_path) ==
    [type |-> type, module_fqn |-> module_fqn, file_path |-> f_path]

\* d[k] = v for every <<k, v>> of entries (which has one value per key)
DictUpdate(d, entries) == {e \in d : ~DictHas(entries, e[1])} \cup entries

\* extract_python_symbols registering a top-level function whether or not
\* its name is in the table
extract_python_symbols_unguarded(db, content, body, f_path, cur_fqn) ==
    IF Falsy(cur_fqn) \/ ~content.parses THEN db
    ELSE LET classes == {n \in walk(body) : n.kind = "ClassDef"}
             class_fqn(c) == cur_fqn \o <<DOT>> \o c.name
             class_entries ==
                 {<<class_fqn(c), symbol_info("class", cur_fqn, f_path)>> :
                      c \in classes}
             method_entries ==
                 UNION {{<<class_fqn(c) \o <<DOT>> \o sub_node.name,
                           symbol_info("method", cur_fqn, f_path)>> :
                             sub_node \in {n \in c.body :
                                              n.kind = "FunctionDef"}} :
                        c \in classes}
             function_entries ==
                 {<<cur_fqn \o <<DOT>> \o n.name,
                    symbol_info("function", cur_fqn, f_path)>> :
                      n \in {n \in body : n.kind = "FunctionDef"}}
             with_module ==
                 DictSet(db, cur_fqn, symbol_info("module", cur_fqn, f_path))
             with_classes ==
                 DictUpdate(with_module, class_entries \cup method_entries)
         IN  DictUpdate(with_classes, function_entries)

\* The table after extract_python_symbols has handled one file. The
\* entries of the classes and methods of one file have distinct keys (a
\* class key has one segment more than the module, a method key two), so
\* the order in which ast.walk meets them does not matter.
extract_python_symbols(db, content, body, f_path, cur_fqn) ==
    IF Falsy(cur_fqn) \/ ~content.parses THEN db
    ELSE LET classes == {n \in walk(body) : n.kind = "ClassDef"}
             class_fqn(c) == cur_fqn \o <<DOT>> \o c.name
             class_entries ==
                 {<<class_fqn(c), symbol_info("class", cur_fqn, f_path)>> :
                      c \in classes}
             method_entries ==
                 UNION {{<<class_fqn(c) \o <<DOT>> \o sub_node.name,
                           symbol_info("method", cur_fqn, f_path)>> :
                             sub_node \in {n \in c.body :
                                              n.kind = "FunctionDef"}} :
                        c \in classes}
             function_entries ==
                 {<<cur_fqn \o <<DOT>> \o n.name,
                    symbol_info("function", cur_fqn, f_path)>> :
                      n \in {n \in body : n.kind = "FunctionDef"}}
             with_module ==
                 DictSet(db, cur_fqn, symbol_info("module", cur_fqn, f_path))
             with_classes ==
                 DictUpdate(with_module, class_entries \cup method_entries)
         IN  with_classes
                 \cup {e \in function_entries : ~DictHas(with_classes, e[1])}

\* ------------------------------------------------------------------------
\* analyze_markdown_file_references
\* ------------------------------------------------------------------------

\* the characters \w matches
WordChars ==
    {"a", "b", "c", "d", "e", "f", "g", "h", "i", "j", "k", "l", "m", "n",
     "o", "p", "q", "r", "s", "t", "u", "v", "w", "x", "y", "z",
     "A", "B", "C", "D", "E", "F", "G", "H", "I", "J", "K", "L", "M", "N",
     "O", "P", "Q", "R", "S", "T", "U", "V", "W", "X", "Y", "Z",
     "0", "1", "2", "3", "4", "5", "6", "7", "8", "9", "_"}

\* \b at position i: exactly one of the characters before and at i is a
\* word character (the ends of the text count as non-word characters)
word_boundary(content, i) ==
    LET before == i > 1 /\ content[i - 1] \in WordChars
        after == i <= Len(content) /\ content[i] \in WordChars
    IN  before # after

\* re.search(r'\b' + re.escape(py_fqn) + r'\b', content)
re_search_word(py_fqn, content) ==
    \E i \in 1..(Len(content) - Len(py_fqn) + 1) :
        /\ SubSeq(content, i, i + Len(py_fqn) - 1) = py_fqn
        /\ word_boundary(content, i)
        /\ word_boundary(content, i + Len(py_fqn))

\* A document: whether it can be read, and its text.
analyze_markdown_file_references(doc, all_python_fqns, db) ==
    IF ~doc.readable THEN {}
    ELSE {DictGet(db, py_fqn).module_fqn :
              py_fqn \in {k \in all_python_fqns :
                             re_search_word(k, doc.text) /\ DictHas(db, k)}}

\* lines 596-599 without the test of line 598
referenced_modules_of_all(contents, db) ==
    [md_file \in DOMAIN contents |->
        analyze_markdown_file_references(contents[md_file],
                                         {e[1] : e \in db}, db)]

\* lines 593-599: markdown_to_referenced_modules, with an entry for every
\* document that references a module
referenced_modules_of(contents, db) ==
    LET all_py_fqns_for_md_search == {e[1] : e \in db}
        referenced_modules(md_file) ==
            analyze_markdown_file_references(contents[md_file],
                                             all_py_fqns_for_md_search, db)
    IN  [md_file \in {f \in DOMAIN contents : referenced_modules(f) # {}} |->
            referenced_modules(md_file)]

\* lines 602-606: markdown_file_scores
score_documents(referenced, ranks) ==
    [md_file \in DOMAIN referenced |->
        SumOver(referenced[md_file],
                [mod_fqn \in referenced[md_file] |-> score_of(ranks, mod_fqn)])]

\* ------------------------------------------------------------------------
\* State
\* ------------------------------------------------------------------------

VARIABLES
    pc,                 \* position in the function under analysis
    abs_repo_path,      \* the repository root
    file_path,          \* path_to_module_fqn: a file and its identity
    fqn,
    other_file_path,    \* a second file resolved against the same root
    other_fqn,
    current_module_fqn, \* get_imports_from_file: the importing module,
    node,               \* one ImportFrom statement,
    resolved_base,      \* what resolve_relative_import returned for it
    imports,            \* and the dependencies it contributed
    all_py_files,       \* analyze_repo: the source files found
    file_content,       \* what each of them contains: its import statements
    file_body,          \* and the declarations at its top level
    specified_external_modules,
    damping_factor,     \* a fraction [num, den]
    weight_internal,    \* the three edge weights, in units of 0.5
    weight_external_import,
    weight_external_dependency,
    mapped,             \* the files the first loop has handled
    module_map,
    file_to_fqn,
    internal_module_fqns,
    python_symbols_db,
    G_imports,
    G_imported_by,
    built,              \* the files the second loop has reached
    current_fqn,        \* the module of the file the second loop is at
    imported_fqns,      \* its dependency identifiers
    todo,               \* those of them the inner loop has yet to visit
    x,                  \* the iterate of the running nx.pagerank call
    iters,              \* and the iterations it has made
    failed,             \* the graphs whose nx.pagerank call raised
    pagerank_being_imported,
    pagerank_importing_others,
    code_ranks,
    outcome,            \* which return of analyze_repo was taken
    analyze_markdown,   \* the flag, as read on line 581
    md_files,           \* the documents found
    md_content,         \* and what each of them contains
    markdown_to_referenced_modules,
    markdown_file_scores

pathVars == <<abs_repo_path, file_path, fqn, other_file_path, other_fqn>>
relVars == <<current_module_fqn, node, resolved_base, imports>>
inputVars == <<all_py_files, file_content, file_body,
               specified_external_modules,
               damping_factor, weight_internal, weight_external_import,
               weight_external_dependency>>
mapVars == <<mapped, module_map, file_to_fqn, internal_module_fqns,
             python_symbols_db>>
graphVars == <<G_imports, G_imported_by>>
loopVars == <<built, current_fqn, imported_fqns, todo>>
rankVars == <<x, iters, failed, pagerank_being_imported,
              pagerank_importing_others>>
mdVars == <<analyze_markdown, md_files, md_content,
            markdown_to_referenced_modules, markdown_file_scores>>
repoVars == <<inputVars, mapVars, graphVars, loopVars, rankVars, code_ranks,
              outcome, mdVars>>
vars == <<pc, pathVars, relVars, repoVars>>

\* ------------------------------------------------------------------------
\* Inputs
\* ------------------------------------------------------------------------

Str_p == <<"p">>
Str_q == <<"q">>
Str_pq == <<"p", "q">>
Str_p_q == <<"p", DOT, "q">>
Str_r == <<"r">>
EXT_PY == <<DOT, "p", "y">>

\* deepest directory nesting of a file below /r
MaxDepth == 2

DirNames == {Str_p, Str_q, Str_pq, Str_p_q}
BaseNames == {Str_q, INIT_NAME}
DirSeqs(d) == UNION {[1..n -> DirNames] : n \in 0..d}

RECURSIVE Slashed(_)
\* /c1/c2/.../cn
Slashed(comps) ==
    IF comps = <<>> THEN <<>>
    ELSE <<SEP>> \o Head(comps) \o Slashed(Tail(comps))

Roots == {Slashed(<<Str_r>> \o ds) : ds \in DirSeqs(1)}
Paths == {Slashed(<<Str_r>> \o ds \o <<b \o EXT_PY>>) :
              ds \in DirSeqs(MaxDepth), b \in BaseNames}

NoNode == ImportFromNode(None, 0, {})

\* ------------------------------------------------------------------------
\* path_to_module_fqn on two files of one root
\* ------------------------------------------------------------------------

NoScores == [n \in {} |-> 0]
NoDocuments == [md_file \in {} |-> {}]

MarkdownIdle ==
    /\ analyze_markdown = FALSE
    /\ md_files = {}
    /\ md_content = NoDocuments
    /\ markdown_to_referenced_modules = NoDocuments
    /\ markdown_file_scores = NoScores

RepoIdle ==
    /\ all_py_files = {}
    /\ file_content = [f \in {} |-> 0]
    /\ file_body = [f \in {} |-> {}]
    /\ python_symbols_db = {}
    /\ MarkdownIdle
    /\ specified_external_modules = {}
    /\ damping_factor = [num |-> 0, den |-> 1]
    /\ weight_internal = 0
    /\ weight_external_import = 0
    /\ weight_external_dependency = 0
    /\ mapped = {}
    /\ module_map = {}
    /\ file_to_fqn = {}
    /\ internal_module_fqns = {}
    /\ G_imports = DiGraph
    /\ G_imported_by = DiGraph
    /\ built = {}
    /\ current_fqn = None
    /\ imported_fqns = {}
    /\ todo = {}
    /\ x = NoScores
    /\ iters = 0
    /\ failed = {}
    /\ pagerank_being_imported = NoScores
    /\ pagerank_importing_others = NoScores
    /\ code_ranks = NoScores
    /\ outcome = "running"

RelIdle ==
    /\ current_module_fqn = None
    /\ node = NoNode
    /\ resolved_base = None
    /\ imports = {}

PathIdle ==
    /\ abs_repo_path = None
    /\ file_path = None
    /\ fqn = None
    /\ other_file_path = None
    /\ other_fqn = None

InitPath ==
    /\ pc = "path_call"
    /\ abs_repo_path \in Roots
    /\ file_path \in Paths
    /\ other_file_path \in Paths
    /\ fqn = None
    /\ other_fqn = None
    /\ RelIdle
    /\ RepoIdle

ResolvePaths ==
    /\ pc = "path_call"
    /\ fqn' = path_to_module_fqn(file_path, abs_repo_path)
    /\ other_fqn' = path_to_module_fqn(other_file_path, abs_repo_path)
    /\ pc' = "path_done"
    /\ UNCHANGED <<abs_repo_path, file_path, other_file_path, relVars,
                   repoVars>>

NextPath == ResolvePaths

SpecPath == InitPath /\ [][NextPath]_vars

\* the components of a normalized absolute path
Comps(path) == NonEmpty(Split(normpath(path), SEP))

\* the file lies inside the directory: the directory's components are a
\* proper prefix of the file's
InsideRoot(path, root) ==
    /\ Len(Comps(root)) < Len(Comps(path))
    /\ SubSeq(Comps(path), 1, Len(Comps(root))) = Comps(root)

\* C3: path_to_module_fqn returns None for every file path that does not lie
\* inside the repository root directory.
C3_OutsideRootIsNone ==
    pc = "path_done" /\ ~InsideRoot(file_path, abs_repo_path) => fqn = None

\* C4: two distinct files inside the same root that both resolve never
\* resolve to the same identity.
C4_IdentityInjective ==
    (/\ pc = "path_done"
     /\ normpath(file_path) # normpath(other_file_path)
     /\ InsideRoot(file_path, abs_repo_path)
     /\ InsideRoot(other_file_path, abs_repo_path)
     /\ fqn # None /\ other_fqn # None)
    => fqn # other_fqn

\* ------------------------------------------------------------------------
\* One relative ImportFrom statement of get_imports_from_file
\* ------------------------------------------------------------------------

Str_a == <<"a">>
Str_b == <<"b">>
Str_s == <<"s">>
Str_x == <<"x">>
Str_y == <<"y">>
Dotted(segs) == Join(segs, DOT)

\* highest relative level of an import statement
MaxLevel == 4

ImporterFqns == {None, Str_a, Dotted(<<Str_a, Str_b>>),
                 Dotted(<<Str_a, Str_b, Str_q>>)}
FromModules == {None, Str_s, Dotted(<<Str_s, Str_p>>)}
ImportedNames == {{Str_x}, {Str_x, Str_y}}

InitRel ==
    /\ pc = "rel_call"
    /\ current_module_fqn \in ImporterFqns
    /\ \E m \in FromModules, l \in 1..MaxLevel, ns \in ImportedNames :
           node = ImportFromNode(m, l, ns)
    /\ resolved_base = None
    /\ imports = {}
    /\ PathIdle
    /\ RepoIdle

\* lines 128-138: the relative branch for one statement
ResolveImportFrom ==
    /\ pc = "rel_call"
    /\ resolved_base' =
           resolve_relative_import(current_module_fqn, node.level, node.module)
    /\ imports' = imports_of_node(node, current_module_fqn)
    /\ pc' = "rel_done"
    /\ UNCHANGED <<current_module_fqn, node, pathVars, repoVars>>

NextRel == ResolveImportFrom

SpecRel == InitRel /\ [][NextRel]_vars

\* number of dotted segments of an identity: one more than its dots
Segments(id) == Cardinality({i \in 1..Len(id) : id[i] = DOT}) + 1

\* the first n dotted segments of an identity, as a list
FirstSegments(id, n) == SubSeq(Split(id, DOT), 1, n)

\* C5: with an importer of k segments and a named module NAME, level L in
\* 1..k resolves to the importer's first k-L segments followed by NAME's
\* segments, and level L > k yields no dependency.
C5_RelativeNamed ==
    (pc = "rel_done" /\ current_module_fqn # None /\ node.module # None)
    => LET k == Segments(current_module_fqn)
           L == node.level
       IN  IF L <= k
           THEN imports = {Dotted(FirstSegments(current_module_fqn, k - L)
                                  \o Split(node.module, DOT))}
           ELSE imports = {}

C5_Witness ==
    /\ pc = "rel_done"
    /\ current_module_fqn = Dotted(<<Str_a, Str_b, Str_q>>)
    /\ node.level = 3
    /\ node.module = Dotted(<<Str_s, Str_p>>)
    /\ imports = {Dotted(<<Str_s, Str_p>>)}

\* C16 as claimed: with the sentinel as the importer's identity, a relative
\* import yields a dependency only at level 1 with a named module NAME (the
\* dependency NAME); at level 2 or more, or without a named module, it
\* yields none.
C16_SentinelLevelOneOnly ==
    (pc = "rel_done" /\ current_module_fqn = None)
    => imports = IF node.level = 1 /\ node.module # None
                 THEN {node.module}
                 ELSE {}

\* C20: a relative import without named module at level L, in a module of k
\* segments, yields one dependency base.N for each imported name N, base
\* being the importer's first k-L segments, when k-L >= 1, and yields
\* nothing when L >= k.
C20_RelativeLevelOnly ==
    (pc = "rel_done" /\ current_module_fqn # None /\ node.module = None)
    => LET k == Segments(current_module_fqn)
           L == node.level
           base == Dotted(FirstSegments(current_module_fqn, k - L))
       IN  IF k - L >= 1
           THEN /\ imports = {base \o <<DOT>> \o N : N \in node.names}
                /\ Cardinality(imports) = Cardinality(node.names)
           ELSE imports = {}

\* from .. import x, y in a.b.q has given a.x and a.y
C20_Witness ==
    /\ pc = "rel_done"
    /\ current_module_fqn = Dotted(<<Str_a, Str_b, Str_q>>)
    /\ node = ImportFromNode(None, 2, {Str_x, Str_y})
    /\ imports = {Dotted(<<Str_a, Str_x>>), Dotted(<<Str_a, Str_y>>)}

\* ------------------------------------------------------------------------
\* analyze_repo
\* ------------------------------------------------------------------------

Str_e == <<"e">>
Str_t == <<"t">>
Fqn_pa == Dotted(<<Str_p, Str_a>>)
Fqn_pb == Dotted(<<Str_p, Str_b>>)
Fqn_et == Dotted(<<Str_e, Str_t>>)

RepoRoot == Slashed(<<Str_r>>)
File_pa == Slashed(<<Str_r, Str_p, Str_a \o EXT_PY>>)
File_pb == Slashed(<<Str_r, Str_p, Str_b \o EXT_PY>>)
File_e == Slashed(<<Str_r, Str_e \o EXT_PY>>)
File_init == Slashed(<<Str_r, INIT_NAME \o EXT_PY>>)
File_et == Slashed(<<Str_r, Str_e, Str_t \o EXT_PY>>)
\* /r/.p/a.py, a module in a directory whose name begins with a dot
File_dot_pa == Slashed(<<Str_r, <<DOT>> \o Str_p, Str_a \o EXT_PY>>)
CandidateFiles ==
    {File_pa, File_pb, File_e, File_init, File_et, File_dot_pa}
\* the repositories analysed: any of the four module files, or /r/p/a.py
\* and /r/.p/a.py, or the root __init__.py alone or next to /r/p/a.py
Repositories ==
    SUBSET {File_pa, File_pb, File_e, File_et}
        \cup {{File_init}, {File_init, File_pa}, {File_dot_pa, File_pa}}

\* file contents: no import; import p.b, e.t; import p.a; from . import a, b
NoImports == [parses |-> TRUE, stmts |-> {}]
ImportsPbAndEt == [parses |-> TRUE, stmts |-> {ImportNode({Fqn_pb, Fqn_et})}]
ImportsPa == [parses |-> TRUE, stmts |-> {ImportNode({Fqn_pa})}]
ImportsSiblings ==
    [parses |-> TRUE, stmts |-> {ImportFromNode(None, 1, {Str_a, Str_b})}]
Contents == {NoImports, ImportsPbAndEt, ImportsPa, ImportsSiblings}
\* import p.a, followed by a syntax error
Unparseable == [parses |-> FALSE, stmts |-> {ImportNode({Fqn_pa})}]

\* what a candidate file may contain: /r/__init__.py, /r/e/t.py and
\* /r/.p/a.py import nothing, and /r/p/b.py is the file that may fail to
\* parse
ContentsOf(f_path) ==
    IF f_path \in {File_init, File_et, File_dot_pa} THEN {NoImports}
    ELSE IF f_path = File_pb THEN Contents \cup {Unparseable}
    ELSE Contents

Str_f == <<"f">>
Str_g == <<"g">>
Str_h == <<"h">>
Str_m == <<"m">>
Str_n == <<"n">>
Str_K == <<"K">>
Str_L == <<"L">>

\* /r/p/a.py: class K: def f(self): def g()
\*            def h(): def n(); class L: def m(self)
\*            def K()
Body_pa ==
    {ClassDef(Str_K, {FunctionDef(Str_f, {FunctionDef(Str_g, {})})}),
     FunctionDef(Str_h, {FunctionDef(Str_n, {}),
                         ClassDef(Str_L, {FunctionDef(Str_m, {})})}),
     FunctionDef(Str_K, {})}
\* /r/p/b.py: def g()
Body_pb == {FunctionDef(Str_g, {})}
\* /r/e.py: class t: def f(self)
Body_e == {ClassDef(Str_t, {FunctionDef(Str_f, {})})}
\* /r/e/t.py: def f()
Body_et == {FunctionDef(Str_f, {})}
\* /r/__init__.py: class K
Body_init == {ClassDef(Str_K, {})}

BodyOf(f_path) ==
    CASE f_path = File_pa -> Body_pa
      [] f_path = File_pb -> Body_pb
      [] f_path = File_e -> Body_e
      [] f_path = File_et -> Body_et
      [] f_path = File_init -> Body_init
      [] f_path = File_dot_pa -> {}

EXT_MD == <<DOT, "m", "d">>
Md_x == Slashed(<<Str_r, Str_x \o EXT_MD>>)
Md_y == Slashed(<<Str_r, Str_y \o EXT_MD>>)
MdFiles == {Md_x, Md_y}

Fqn_paK == Dotted(<<Str_p, Str_a, Str_K>>)
Fqn_pah == Dotted(<<Str_p, Str_a, Str_h>>)
Fqn_etf == Dotted(<<Str_e, Str_t, Str_f>>)
Fqn_dot_pa == <<DOT>> \o Fqn_pa
Text(chars) == [readable |-> TRUE, text |-> chars]
\* document texts: "p.a.K p.a.h", "Xp.a.K", "p.a.KX", "p.bX e.t.f",
\* "X.p.a", and a document that cannot be read
MentionsKAndH == Text(Fqn_paK \o <<" ">> \o Fqn_pah)
MentionsXpaK == Text(<<"X">> \o Fqn_paK)
MentionsKX == Text(Fqn_paK \o <<"X">>)
MentionsPbXAndEtf == Text(Fqn_pb \o <<"X", " ">> \o Fqn_etf)
MentionsXDotPa == Text(<<"X">> \o Fqn_dot_pa)
Unreadable == [readable |-> FALSE, text |-> Fqn_pa]
DocTexts == {MentionsKAndH, MentionsXpaK, MentionsKX, MentionsPbXAndEtf,
             MentionsXDotPa, Unreadable}
\* no document, or two documents of which the second has one of two texts
DocumentSets ==
    {NoDocuments}
        \cup {contents \in [MdFiles -> DocTexts] :
                 contents[Md_y] \in {MentionsXpaK, MentionsPbXAndEtf}}

ExternalSets == {{}, {Str_e}}

\* the defaults of main() (damping 0.85, weights 1.0, 0.5, 0.5), and an
\* undamped run with a heavier external-dependency weight
DefaultParams == [damping |-> [num |-> 17, den |-> 20],
                  internal |-> 2, external_import |-> 1,
                  external_dependency |-> 1]
UndampedParams == [damping |-> [num |-> 1, den |-> 1],
                   internal |-> 2, external_import |-> 1,
                   external_dependency |-> 3]
ParamSets == {DefaultParams, UndampedParams}

Init ==
    /\ pc = "map"
    /\ abs_repo_path = RepoRoot
    /\ all_py_files \in Repositories
    /\ file_content \in [all_py_files -> Contents \cup {Unparseable}]
    /\ \A f_path \in all_py_files : file_content[f_path] \in ContentsOf(f_path)
    /\ file_body = [f_path \in all_py_files |-> BodyOf(f_path)]
    /\ specified_external_modules \in ExternalSets
    /\ \E ps \in ParamSets :
           /\ damping_factor = ps.damping
           /\ weight_internal = ps.internal
           /\ weight_external_import = ps.external_import
           /\ weight_external_dependency = ps.external_dependency
    /\ mapped = {}
    /\ module_map = {}
    /\ file_to_fqn = {}
    /\ internal_module_fqns = {}
    /\ python_symbols_db = {}
    /\ G_imports = DiGraph
    /\ G_imported_by = DiGraph
    /\ built = {}
    /\ current_fqn = None
    /\ imported_fqns = {}
    /\ todo = {}
    /\ x = NoScores
    /\ iters = 0
    /\ failed = {}
    /\ pagerank_being_imported = NoScores
    /\ pagerank_importing_others = NoScores
    /\ code_ranks = NoScores
    /\ outcome = "running"
    /\ MarkdownIdle
    /\ file_path = None
    /\ fqn = None
    /\ other_file_path = None
    /\ other_fqn = None
    /\ RelIdle

\* lines 364-366: no source file at all
ReturnNoFiles ==
    /\ pc = "map"
    /\ all_py_files = {}
    /\ pc' = "done"
    /\ outcome' = "no_files"
    /\ UNCHANGED <<pathVars, relVars, inputVars, mdVars, mapVars, graphVars, loopVars,
                   rankVars, code_ranks>>

\* lines 374-381: one pass of the first loop
MapFile(f_path) ==
    /\ pc = "map"
    /\ f_path \in all_py_files \ mapped
    /\ LET id == path_to_module_fqn(f_path, abs_repo_path)
       IN  IF ~Falsy(id)
           THEN /\ module_map' = DictSet(module_map, id, f_path)
                /\ file_to_fqn' = DictSet(file_to_fqn, f_path, id)
                /\ internal_module_fqns' = internal_module_fqns \cup {id}
                /\ python_symbols_db' =
                       extract_python_symbols(python_symbols_db,
                                              file_content[f_path],
                                              file_body[f_path], f_path, id)
           ELSE UNCHANGED <<module_map, file_to_fqn, internal_module_fqns,
                            python_symbols_db>>
    /\ mapped' = mapped \cup {f_path}
    /\ UNCHANGED <<pc, pathVars, relVars, inputVars, mdVars, graphVars, loopVars,
                   rankVars, code_ranks, outcome>>

\* lines 387-397: both graphs get every internal module and every external
\* target as a node
SeedGraphs ==
    /\ pc = "map"
    /\ all_py_files # {}
    /\ mapped = all_py_files
    /\ LET all_graph_nodes == internal_module_fqns \cup specified_external_modules
       IN  /\ G_imports' = add_nodes_from(DiGraph, all_graph_nodes)
           /\ G_imported_by' = add_nodes_from(DiGraph, all_graph_nodes)
    /\ pc' = "build"
    /\ UNCHANGED <<pathVars, relVars, inputVars, mdVars, mapVars, loopVars, rankVars,
                   code_ranks, outcome>>

\* lines 400-406: the second loop reaches a file; one without identity is
\* skipped, of another the dependency identifiers are extracted
BuildFile(f_path) ==
    /\ pc = "build"
    /\ todo = {}
    /\ f_path \in all_py_files \ built
    /\ built' = built \cup {f_path}
    /\ LET id == DictGet(file_to_fqn, f_path)
       IN  IF Falsy(id)
           THEN UNCHANGED <<current_fqn, imported_fqns, todo>>
           ELSE /\ current_fqn' = id
                /\ imported_fqns' =
                       get_imports_from_file(file_content[f_path], id)
                /\ todo' = imported_fqns'
    /\ UNCHANGED <<pc, pathVars, relVars, inputVars, mdVars, mapVars, graphVars,
                   rankVars, code_ranks, outcome>>

\* lines 408-433: one pass of the inner loop
BuildDependency(imported_fqn_full) ==
    /\ pc = "build"
    /\ imported_fqn_full \in todo
    /\ todo' = todo \ {imported_fqn_full}
    /\ LET target == target_node_fqn(imported_fqn_full,
                                     specified_external_modules,
                                     internal_module_fqns)
           ext == is_external(imported_fqn_full, specified_external_modules)
           weight_to == IF ext THEN weight_external_import
                        ELSE weight_internal
           weight_from == IF ext THEN weight_external_dependency
                          ELSE weight_internal
           back == imported_by_edge(current_fqn, target)
       IN  IF adds_edge(current_fqn, target)
           THEN /\ G_imports' =
                       add_edge(G_imports, current_fqn, target, weight_to)
                /\ G_imported_by' =
                       add_edge(G_imported_by, back[1], back[2], weight_from)
           ELSE UNCHANGED graphVars
    /\ UNCHANGED <<pc, pathVars, relVars, inputVars, mdVars, mapVars, built,
                   current_fqn, imported_fqns, rankVars, code_ranks, outcome>>

BuildFinished == pc = "build" /\ built = all_py_files /\ todo = {}

\* lines 435-437
ReturnEmptyGraphs ==
    /\ BuildFinished
    /\ (G_imports.nodes = {} \/ G_imported_by.nodes = {})
    /\ pc' = "done"
    /\ outcome' = "empty_graphs"
    /\ UNCHANGED <<pathVars, relVars, inputVars, mdVars, mapVars, graphVars, loopVars,
                   rankVars, code_ranks>>

\* line 450: nx.pagerank(G_imports, ...) starts from the uniform vector
StartRankImports ==
    /\ BuildFinished
    /\ G_imports.nodes # {} /\ G_imported_by.nodes # {}
    /\ x' = uniform_start(G_imports)
    /\ iters' = 0
    /\ pc' = "rank_imports"
    /\ UNCHANGED <<pathVars, relVars, inputVars, mdVars, mapVars, graphVars, loopVars,
                   failed, pagerank_being_imported, pagerank_importing_others,
                   code_ranks, outcome>>

\* line 450: one power iteration; the call returns when it has converged
StepRankImports ==
    /\ pc = "rank_imports"
    /\ iters < MAX_ITER
    /\ x' = power_step(G_imports, x, damping_factor)
    /\ iters' = iters + 1
    /\ IF converged(G_imports, x', x)
       THEN /\ pagerank_being_imported' = x'
            /\ pc' = "ranked_imports"
       ELSE UNCHANGED <<pc, pagerank_being_imported>>
    /\ UNCHANGED <<pathVars, relVars, inputVars, mdVars, mapVars, graphVars, loopVars,
                   failed, pagerank_importing_others, code_ranks, outcome>>

\* lines 452-454: PowerIterationFailedConvergence after max_iter iterations
FailRankImports ==
    /\ pc = "rank_imports"
    /\ iters = MAX_ITER
    /\ failed' = failed \cup {"imports"}
    /\ pagerank_being_imported' = fallback_ranks(G_imports)
    /\ pc' = "ranked_imports"
    /\ UNCHANGED <<pathVars, relVars, inputVars, mdVars, mapVars, graphVars, loopVars,
                   x, iters, pagerank_importing_others, code_ranks, outcome>>

\* line 468: nx.pagerank(G_imported_by, ...) starts from the uniform vector
StartRankImportedBy ==
    /\ pc = "ranked_imports"
    /\ x' = uniform_start(G_imported_by)
    /\ iters' = 0
    /\ pc' = "rank_imported_by"
    /\ UNCHANGED <<pathVars, relVars, inputVars, mdVars, mapVars, graphVars, loopVars,
                   failed, pagerank_being_imported, pagerank_importing_others,
                   code_ranks, outcome>>

\* line 468
StepRankImportedBy ==
    /\ pc = "rank_imported_by"
    /\ iters < MAX_ITER
    /\ x' = power_step(G_imported_by, x, damping_factor)
    /\ iters' = iters + 1
    /\ IF converged(G_imported_by, x', x)
       THEN /\ pagerank_importing_others' = x'
            /\ pc' = "ranked_imported_by"
       ELSE UNCHANGED <<pc, pagerank_importing_others>>
    /\ UNCHANGED <<pathVars, relVars, inputVars, mdVars, mapVars, graphVars, loopVars,
                   failed, pagerank_being_imported, code_ranks, outcome>>

\* lines 471-473
FailRankImportedBy ==
    /\ pc = "rank_imported_by"
    /\ iters = MAX_ITER
    /\ failed' = failed \cup {"imported_by"}
    /\ pagerank_importing_others' = fallback_ranks(G_imported_by)
    /\ pc' = "ranked_imported_by"
    /\ UNCHANGED <<pathVars, relVars, inputVars, mdVars, mapVars, graphVars, loopVars,
                   x, iters, pagerank_being_imported, code_ranks, outcome>>

\* lines 484-486 reporting a ranking without looking at it
outcome_of_ranks_always_reported(ranks) == "reported"

\* lines 484-486: an empty ranking ends the run
outcome_of_ranks(ranks) ==
    IF DOMAIN ranks = {} THEN "no_ranks" ELSE "reported"

\* lines 476-489: the CodeRank of every internal module
Combine ==
    /\ pc = "ranked_imported_by"
    /\ code_ranks' =
           [module_fqn \in internal_module_fqns |->
               combine_scores(score_of(pagerank_being_imported, module_fqn),
                              score_of(pagerank_importing_others, module_fqn))]
    /\ outcome' = outcome_of_ranks(code_ranks')
    /\ pc' = IF outcome' = "no_ranks" THEN "done" ELSE "markdown"
    /\ UNCHANGED <<pathVars, relVars, inputVars, mdVars, mapVars, graphVars,
                   loopVars, rankVars>>

\* line 581: the run was started without --analyze_markdown
SkipMarkdown ==
    /\ pc = "markdown"
    /\ analyze_markdown' = FALSE
    /\ pc' = "done"
    /\ UNCHANGED <<pathVars, relVars, inputVars, mapVars, graphVars, loopVars,
                   rankVars, code_ranks, outcome, md_files, md_content,
                   markdown_to_referenced_modules, markdown_file_scores>>

\* lines 581-606: the run was started with --analyze_markdown; the
\* documents are found and read, the modules each of them references are
\* collected, and the documents that reference one are scored
AnalyzeMarkdown ==
    /\ pc = "markdown"
    /\ analyze_markdown' = TRUE
    /\ \E contents \in DocumentSets :
           /\ md_files' = DOMAIN contents
           /\ md_content' = contents
           /\ markdown_to_referenced_modules' =
                  referenced_modules_of(contents, python_symbols_db)
           /\ markdown_file_scores' =
                  score_documents(markdown_to_referenced_modules', code_ranks)
    /\ pc' = "done"
    /\ UNCHANGED <<pathVars, relVars, inputVars, mapVars, graphVars, loopVars,
                   rankVars, code_ranks, outcome>>

Next ==
    \/ ReturnNoFiles
    \/ \E f_path \in CandidateFiles : MapFile(f_path)
    \/ SeedGraphs
    \/ \E f_path \in CandidateFiles : BuildFile(f_path)
    \/ \E d \in todo : BuildDependency(d)
    \/ ReturnEmptyGraphs
    \/ StartRankImports
    \/ StepRankImports
    \/ FailRankImports
    \/ StartRankImportedBy
    \/ StepRankImportedBy
    \/ FailRankImportedBy
    \/ Combine
    \/ SkipMarkdown
    \/ AnalyzeMarkdown

Spec == Init /\ [][Next]_vars

\* ------------------------------------------------------------------------
\* Properties of analyze_repo
\* ------------------------------------------------------------------------

\* C1: neither graph ever contains an edge from a node to itself.
C1_NoSelfLoops ==
    \A e \in G_imports.edges \cup G_imported_by.edges : e[1] # e[2]

\* p.a has imported itself by its full identity, and e has imported e.t
\* while e is an external target
C1_Witness ==
    /\ pc = "build" /\ todo = {}
    /\ File_pa \in built /\ file_content[File_pa] = ImportsPa
    /\ File_e \in built /\ file_content[File_e] = ImportsPbAndEt
    /\ Str_e \in specified_external_modules
    /\ G_imports.edges # {}

EdgePairs(G) == {<<e[1], e[2]>> : e \in G.edges}
Seeded == pc # "map" /\ outcome # "no_files"

\* C2: from seeding on, both graphs have the node set internal identities
\* plus external targets, and (u, v) is an imports edge iff (v, u) is an
\* imported-by edge.
C2_SameNodesTransposedEdges ==
    Seeded =>
        /\ G_imports.nodes = internal_module_fqns \cup specified_external_modules
        /\ G_imported_by.nodes = G_imports.nodes
        /\ EdgePairs(G_imported_by) = {<<pr[2], pr[1]>> : pr \in EdgePairs(G_imports)}

\* an edge has been inserted while another node has no edge at all
C2_Witness ==
    /\ pc = "build"
    /\ G_imports.edges # {}
    /\ \E n \in G_imports.nodes :
           \A e \in G_imports.edges : e[1] # n /\ e[2] # n

Reported == pc = "done" /\ outcome = "reported"

\* C6: the keys of the reported CodeRank map are exactly the internal module
\* identities, and each value is the module's imports-graph score plus its
\* imported-by-graph score.
C6_CodeRankIsSum ==
    Reported =>
        /\ DOMAIN code_ranks = internal_module_fqns
        /\ \A m \in internal_module_fqns :
               /\ m \in DOMAIN pagerank_being_imported
               /\ m \in DOMAIN pagerank_importing_others
               /\ code_ranks[m] = pagerank_being_imported[m]
                                  + pagerank_importing_others[m]

C6_Witness ==
    /\ Reported
    /\ Cardinality(internal_module_fqns) >= 2
    /\ specified_external_modules \ internal_module_fqns # {}
    /\ G_imports.edges # {}
    /\ \E m \in internal_module_fqns :
           pagerank_being_imported[m] # pagerank_importing_others[m]

\* C7: no configured external target name is a key of the reported ranking.
C7_ExternalsNeverReported ==
    Reported => DOMAIN code_ranks \cap specified_external_modules = {}

RankedImports ==
    \/ pc \in {"ranked_imports", "rank_imported_by", "ranked_imported_by",
              "markdown"}
    \/ pc = "done" /\ outcome \in {"no_ranks", "reported"}
RankedImportedBy ==
    \/ pc \in {"ranked_imported_by", "markdown"}
    \/ pc = "done" /\ outcome \in {"no_ranks", "reported"}

IsUniform(G, ranks) ==
    /\ DOMAIN ranks = G.nodes
    /\ \A n \in G.nodes : ranks[n] = SCALE \div Cardinality(G.nodes)

C8_ScoreMaps ==
    /\ RankedImports =>
           /\ DOMAIN pagerank_being_imported = G_imports.nodes
           /\ "imports" \in failed =>
                  IsUniform(G_imports, pagerank_being_imported)
    /\ RankedImportedBy =>
           /\ DOMAIN pagerank_importing_others = G_imported_by.nodes
           /\ "imported_by" \in failed =>
                  IsUniform(G_imported_by, pagerank_importing_others)

C8_Steps ==
    /\ failed' # failed =>
           /\ iters = MAX_ITER
           /\ pc' \in {"ranked_imports", "ranked_imported_by"}
           /\ outcome' = "running"
    /\ pc = "rank_imports" =>
           pagerank_importing_others' = pagerank_importing_others
    /\ pc = "rank_imported_by" =>
           pagerank_being_imported' = pagerank_being_imported

\* C8: a ranking that has not converged after MAX_ITER iterations is the
\* uniform distribution 1/N over the nodes of its graph and the run goes on
\* to the next phase; converged or not, the score map has an entry for every
\* node of its graph; ranking one graph leaves the other graph's ranking
\* unchanged.
C8_FallbackUniform == [](C8_ScoreMaps) /\ [][C8_Steps]_vars

\* the imports ranking fell back, the imported-by ranking converged, and
\* the module ranking was reported
C8_Witness ==
    /\ Reported
    /\ failed = {"imports"}
    /\ ~IsUniform(G_imported_by, pagerank_importing_others)

\* pkg.a imports pkg.b and ext.thing, pkg.b imports nothing, externals {ext},
\* damping 0.85, weights 1.0, 0.5, 0.5
Scenario ==
    /\ all_py_files = {File_pa, File_pb}
    /\ file_content[File_pa] = ImportsPbAndEt
    /\ file_content[File_pb] = NoImports
    /\ specified_external_modules = {Str_e}
    /\ damping_factor = DefaultParams.damping
    /\ weight_internal = DefaultParams.internal
    /\ weight_external_import = DefaultParams.external_import
    /\ weight_external_dependency = DefaultParams.external_dependency

\* C9 as claimed: in the scenario the CodeRank of pkg.b exceeds that of
\* pkg.a.
C9_PbOutranksPa ==
    (pc = "done" /\ Scenario) => code_ranks[Fqn_pb] > code_ranks[Fqn_pa]

\* C9, amended: in the scenario both rankings converge and the CodeRank of
\* pkg.a exceeds that of pkg.b; pkg.b outranks pkg.a in the imports
\* graph only.
C9_PaOutranksPb ==
    (pc = "done" /\ Scenario) =>
        /\ failed = {}
        /\ code_ranks[Fqn_pa] > code_ranks[Fqn_pb]
        /\ pagerank_being_imported[Fqn_pb] > pagerank_being_imported[Fqn_pa]
        /\ pagerank_importing_others[Fqn_pa] > pagerank_importing_others[Fqn_pb]

C9_Witness ==
    /\ Reported /\ Scenario
    /\ EdgePairs(G_imports) = {<<Fqn_pa, Fqn_pb>>, <<Fqn_pa, Str_e>>}

\* what truncation can have taken from the sum of the scores after k
\* iterations on N nodes: less than 1 per node in the start vector, and in
\* each iteration, for each node, less than 1 per inbound edge, 1 in the
\* damped term and 1 in the teleport term
RoundingSlack(N, k) == N + k * N * (N + 1)

Normalized(G, ranks, k) ==
    /\ DOMAIN ranks = G.nodes
    /\ \A n \in G.nodes : ranks[n] >= 0
    /\ SumOver(G.nodes, ranks) <= SCALE
    /\ SumOver(G.nodes, ranks)
           >= SCALE - RoundingSlack(Cardinality(G.nodes), k)

\* C10: in each graph every score is non-negative and the scores sum to 1
\* (up to the truncation of the fixed-point arithmetic): after every
\* iteration, in the converged ranking and in the uniform fallback.
C10_ScoresNormalized ==
    /\ pc \in {"rank_imports", "ranked_imports"} =>
           Normalized(G_imports, x, iters)
    /\ pc \in {"rank_imported_by", "ranked_imported_by"} =>
           Normalized(G_imported_by, x, iters)
    /\ RankedImports =>
           Normalized(G_imports, pagerank_being_imported, MAX_ITER)
    /\ RankedImportedBy =>
           Normalized(G_imported_by, pagerank_importing_others, MAX_ITER)

\* an iteration has redistributed the mass of a dangling node, after the
\* other ranking fell back to the uniform distribution
C10_Witness ==
    /\ pc = "rank_imported_by"
    /\ iters >= 2
    /\ Dangling(G_imported_by) # {}
    /\ G_imported_by.edges # {}
    /\ "imports" \in failed

\* ------------------------------------------------------------------------
\* Properties of the document scores
\* ------------------------------------------------------------------------

\* the run has analysed the documents
Analyzed == pc = "done" /\ outcome = "reported" /\ analyze_markdown

SymbolFqns == {e[1] : e \in python_symbols_db}
\* the owning module the symbol table records for a symbol
Owner(py_fqn) == DictGet(python_symbols_db, py_fqn).module_fqn

\* the symbols matched in a document
Matched(md_file) ==
    {py_fqn \in SymbolFqns :
        /\ md_content[md_file].readable
        /\ re_search_word(py_fqn, md_content[md_file].text)}

\* C11: a document has a score iff at least one symbol is matched in it,
\* and the score is the sum of code_ranks[m] over the internal modules m
\* that own a matched symbol, each taken once; a run that analyses no
\* document has no document score.
C11_DocumentScore ==
    /\ Analyzed =>
           \A md_file \in md_files :
               LET owners == {Owner(py_fqn) : py_fqn \in Matched(md_file)}
               IN  /\ md_file \in DOMAIN markdown_file_scores
                          <=> Matched(md_file) # {}
                   /\ md_file \in DOMAIN markdown_file_scores =>
                          markdown_file_scores[md_file] =
                              SumOver(internal_module_fqns,
                                      [m \in internal_module_fqns |->
                                          IF m \in owners THEN code_ranks[m]
                                          ELSE 0])
    /\ DOMAIN markdown_file_scores \subseteq md_files
    /\ ~Analyzed => markdown_file_scores = NoScores

\* /r/x.md names p.a.K and p.a.h (and so p.a) and scores the CodeRank of
\* p.a once; /r/y.md matches nothing and has no score
C11_Witness ==
    /\ Analyzed
    /\ md_files = MdFiles
    /\ Fqn_pa \in internal_module_fqns
    /\ md_content[Md_x] = MentionsKAndH
    /\ Matched(Md_x) = {Fqn_pa, Fqn_paK, Fqn_pah}
    /\ code_ranks[Fqn_pa] > 0
    /\ markdown_file_scores[Md_x] = code_ranks[Fqn_pa]
    /\ Cardinality(internal_module_fqns) >= 2
    /\ md_content[Md_y] = MentionsXpaK
    /\ DOMAIN markdown_file_scores = {Md_x}

\* the name occurs in the text with no identifier character right before
\* and none right after the occurrence
WholeToken(name, text) ==
    \E i \in 1..(Len(text) - Len(name) + 1) :
        /\ \A j \in 1..Len(name) : text[i + j - 1] = name[j]
        /\ i = 1 \/ text[i - 1] \notin WordChars
        /\ i + Len(name) > Len(text) \/ text[i + Len(name)] \notin WordChars

\* C12 as claimed: the modules a readable document references are exactly
\* the recorded owning modules of the symbols that occur in it as a whole
\* token (an
\* occurrence neither preceded nor followed by an identifier character);
\* the owning module of a module-kind symbol is the symbol itself.
C12_WholeTokenHits ==
    Analyzed =>
        \A md_file \in md_files :
            LET hits == {py_fqn \in SymbolFqns :
                            /\ md_content[md_file].readable
                            /\ WholeToken(py_fqn, md_content[md_file].text)}
                referenced ==
                    IF md_file \in DOMAIN markdown_to_referenced_modules
                    THEN markdown_to_referenced_modules[md_file]
                    ELSE {}
            IN  /\ referenced = {Owner(py_fqn) : py_fqn \in hits}
                /\ \A py_fqn \in hits :
                       DictGet(python_symbols_db, py_fqn).type = "module"
                           => Owner(py_fqn) = py_fqn

\* ------------------------------------------------------------------------
\* Properties of a run without internal module
\* ------------------------------------------------------------------------

\* no source file has an identity
ZeroIdentities ==
    \A f_path \in all_py_files :
        Falsy(path_to_module_fqn(f_path, abs_repo_path))

\* the steps of a run other than the passes of its loops over files,
\* dependencies and documents
StepsOutsideLoops ==
    \/ ReturnNoFiles
    \/ SeedGraphs
    \/ ReturnEmptyGraphs
    \/ StartRankImports
    \/ StepRankImports
    \/ FailRankImports
    \/ StartRankImportedBy
    \/ StepRankImportedBy
    \/ FailRankImportedBy
    \/ Combine

\* C13: a run in which no source file has an identity can go on until it
\* has returned (a file is left to map or to skip, or a step outside the
\* loops is possible), and returns with no module ranking and no document
\* score; and no ranking is ever computed on a graph without nodes.
C13_NoIdentities ==
    /\ ZeroIdentities =>
           /\ pc # "done" =>
                  \/ pc = "map" /\ all_py_files \ mapped # {}
                  \/ pc = "build" /\ all_py_files \ built # {}
                  \/ ENABLED StepsOutsideLoops
           /\ pc = "done" =>
                  outcome \in {"no_files", "empty_graphs", "no_ranks"}
           /\ outcome # "reported"
           /\ code_ranks = NoScores
           /\ markdown_file_scores = NoScores
           /\ markdown_to_referenced_modules = NoDocuments
    /\ pc \in {"rank_imports", "ranked_imports", "rank_imported_by",
               "ranked_imported_by"} =>
           G_imports.nodes # {} /\ G_imported_by.nodes # {}

\* only /r/__init__.py was found and e is an external target: both
\* rankings were computed on the graph of the one node e, and the run
\* returned without a module ranking
C13_Witness ==
    /\ pc = "done"
    /\ all_py_files = {File_init}
    /\ mapped = all_py_files
    /\ internal_module_fqns = {}
    /\ G_imports.nodes = {Str_e}
    /\ DOMAIN pagerank_importing_others = {Str_e}
    /\ outcome = "no_ranks"

\* ------------------------------------------------------------------------
\* Properties of the edge target of a dependency
\* ------------------------------------------------------------------------

\* the characters of an identifier before its first dot
LeadingSegment(id) ==
    LET dots == {i \in 1..Len(id) : id[i] = DOT}
    IN  IF dots = {} THEN id
        ELSE SubSeq(id, 1, (CHOOSE i \in dots : \A j \in dots : i <= j) - 1)

\* the target the claimed order gives a dependency identifier, or None
DecidedTarget(id) ==
    IF LeadingSegment(id) \in specified_external_modules
    THEN LeadingSegment(id)
    ELSE IF id \in internal_module_fqns THEN id
    ELSE None

\* a pass of the inner loop, which takes one identifier out of todo
C14_Step ==
    (pc = "build" /\ todo # {} /\ todo' # todo) =>
        LET id == CHOOSE id \in todo : id \notin todo'
            target == DecidedTarget(id)
        IN  IF Falsy(target) \/ target = current_fqn
            THEN UNCHANGED graphVars
            ELSE /\ EdgePairs(G_imports') =
                        EdgePairs(G_imports) \cup {<<current_fqn, target>>}
                 /\ EdgePairs(G_imported_by') =
                        EdgePairs(G_imported_by)
                            \cup {<<target, current_fqn>>}

\* C14: the target of a (source module, dependency identifier) pair is the
\* identifier's leading dotted segment if that is an external target, even
\* when the full identifier is an internal identity; otherwise the full
\* identifier if it is exactly an internal identity; otherwise there is
\* none and no edge is added to either graph.
C14_TargetOrder == [][C14_Step]_vars

\* e is an external target and e.t an internal module: p.a, which imports
\* p.b and e.t, has the edges to p.b and to e, and none to e.t
C14_Witness ==
    /\ BuildFinished
    /\ Str_e \in specified_external_modules
    /\ Fqn_et \in internal_module_fqns
    /\ File_pa \in all_py_files
    /\ file_content[File_pa] = ImportsPbAndEt
    /\ {pr \in EdgePairs(G_imports) : pr[1] = Fqn_pa}
           = {<<Fqn_pa, Fqn_pb>>, <<Fqn_pa, Str_e>>}

\* ------------------------------------------------------------------------
\* Properties of the edge weights
\* ------------------------------------------------------------------------

\* the weights of the edges of G from u to v
WeightsOf(G, u, v) == {e[3] : e \in {d \in G.edges : d[1] = u /\ d[2] = v}}

C15_Weights ==
    /\ \A e \in G_imports.edges :
           /\ e[2] \in specified_external_modules =>
                  /\ e[3] = weight_external_import
                  /\ WeightsOf(G_imported_by, e[2], e[1])
                         = {weight_external_dependency}
           /\ {e[1], e[2]} \subseteq internal_module_fqns =>
                  /\ e[3] = weight_internal
                  /\ WeightsOf(G_imported_by, e[2], e[1]) = {weight_internal}
           /\ WeightsOf(G_imports, e[1], e[2]) = {e[3]}
    /\ \A e \in G_imported_by.edges :
           WeightsOf(G_imported_by, e[1], e[2]) = {e[3]}
    /\ (BuildFinished /\ Scenario) =>
           /\ G_imports.edges = {<<Fqn_pa, Fqn_pb, weight_internal>>,
                                 <<Fqn_pa, Str_e, weight_external_import>>}
           /\ G_imported_by.edges =
                  {<<Fqn_pb, Fqn_pa, weight_internal>>,
                   <<Str_e, Fqn_pa, weight_external_dependency>>}

\* a pass of the inner loop for an ordered pair that is an edge already
C15_Step ==
    (pc = "build" /\ todo # {} /\ todo' # todo) =>
        LET id == CHOOSE id \in todo : id \notin todo'
            target == DecidedTarget(id)
        IN  <<current_fqn, target>> \in EdgePairs(G_imports) =>
                UNCHANGED graphVars

\* C15 as claimed: an imports edge to an external target has the
\* external-import weight and its transposed edge the external-dependency
\* weight; an edge between two internal modules has the internal weight in
\* both graphs; an ordered pair has one edge, and inserting it again
\* changes nothing; in the scenario (externals {e}, p.a importing p.b and
\* e.t, default weights) the imports edges are exactly p.a->p.b (internal
\* weight) and p.a->e (external-import weight) and the imported-by edges
\* exactly p.b->p.a and e->p.a.
C15_WeightByTargetKind == [](C15_Weights) /\ [][C15_Step]_vars

\* ------------------------------------------------------------------------
\* Properties of the symbol table
\* ------------------------------------------------------------------------

\* C17 as claimed: once every source file has been processed, in any file
\* order, the symbol table maps the identity M of every internal module
\* whose file parsed to an entry of kind module owned by M; no class,
\* method or function registration of any file replaces it.
C17_ModuleEntriesKept ==
    mapped = all_py_files =>
        \A f_path \in all_py_files :
            LET M == path_to_module_fqn(f_path, abs_repo_path)
            IN  (~Falsy(M) /\ file_content[f_path].parses) =>
                    /\ DictHas(python_symbols_db, M)
                    /\ DictGet(python_symbols_db, M).type = "module"
                    /\ DictGet(python_symbols_db, M).module_fqn = M

\* the names of the function declarations among the nodes
FunctionNames(nodes) == {n.name : n \in {d \in nodes : d.kind = "FunctionDef"}}

\* the FQNs a file registers for its classes and their methods
ClassAndMethodFqns(f_path, M) ==
    UNION {{M \o <<DOT>> \o c.name}
               \cup {M \o <<DOT>> \o c.name \o <<DOT>> \o name :
                        name \in FunctionNames(c.body)} :
           c \in {n \in walk(file_body[f_path]) : n.kind = "ClassDef"}}

\* every function-kind entry stands for a function declared at the top
\* level of a processed file, under a name no class or method of that
\* file is registered with
C18_Entries ==
    \A e \in python_symbols_db :
        e[2].type = "function" =>
            /\ e[2].file_path \in mapped
            /\ e[2].module_fqn =
                   path_to_module_fqn(e[2].file_path, abs_repo_path)
            /\ \E name \in FunctionNames(file_body[e[2].file_path]) :
                   e[1] = e[2].module_fqn \o <<DOT>> \o name
            /\ e[1] \notin ClassAndMethodFqns(e[2].file_path,
                                              e[2].module_fqn)

\* processing a file leaves every symbol that was registered before and
\* is of function kind afterwards as it was
C18_Step ==
    \A e \in python_symbols_db :
        DictGet(python_symbols_db', e[1]).type = "function" =>
            DictGet(python_symbols_db', e[1]) = e[2]

\* C18: a function-kind symbol module.name is registered only for a
\* function declared at the top level of the file (not for one nested in a
\* function, nor for one of a class body, which is a method
\* module.Class.name), and only if that FQN is not in the symbol table
\* yet: an entry registered earlier, by this or another file, is kept.
C18_FirstRegistrationWins == [](C18_Entries) /\ [][C18_Step]_vars

\* /r/e.py, then /r/e/t.py, and /r/p/a.py were processed: e.t.f is still
\* the method of class t of module e, p.a.K the class, and p.a.h, declared
\* at the top level, a function, while the nested p.a.n is no symbol
C18_Witness ==
    /\ {File_e, File_et, File_pa} \subseteq mapped
    /\ file_content[File_e].parses
    /\ file_content[File_pa].parses
    /\ DictGet(python_symbols_db, Fqn_et).type = "module"
    /\ DictGet(python_symbols_db, Fqn_etf)
           = symbol_info("method", Str_e, File_e)
    /\ DictGet(python_symbols_db, Fqn_paK).type = "class"
    /\ DictGet(python_symbols_db, Fqn_pah).type = "function"
    /\ ~DictHas(python_symbols_db, Dotted(<<Str_p, Str_a, Str_n>>))

\* ------------------------------------------------------------------------
\* Properties of a source file that cannot be read or parsed
\* ------------------------------------------------------------------------

UnparsedFiles == {f_path \in all_py_files : ~file_content[f_path].parses}

\* no symbol and no imports edge comes from such a file, and its identity
\* is a node of both graphs
C19_NoContribution ==
    \A f_path \in UnparsedFiles :
        LET M == path_to_module_fqn(f_path, abs_repo_path)
        IN  /\ \A e \in python_symbols_db : e[2].file_path # f_path
            /\ \A e \in G_imports.edges : e[1] # M
            /\ \A e \in G_imported_by.edges : e[2] # M
            /\ (Seeded /\ ~Falsy(M)) =>
                   M \in G_imports.nodes \cap G_imported_by.nodes

\* the pass of either loop over such a file changes neither the symbol
\* table nor the graphs, yields no dependency, and the run goes on
C19_Step ==
    \A f_path \in UnparsedFiles :
        /\ (f_path \notin mapped /\ f_path \in mapped') =>
               python_symbols_db' = python_symbols_db /\ pc' = "map"
        /\ (f_path \notin built /\ f_path \in built') =>
               /\ imported_fqns' = {}
               /\ todo' = {}
               /\ UNCHANGED <<graphVars, python_symbols_db>>
               /\ pc' = "build"

\* C19: a source file that cannot be read or parsed contributes no
\* dependency (no imports edge with it as source) and no symbol, not even
\* its module-kind symbol; the run goes on without error, the symbols and
\* edges of the other files are left as they are, and the file's identity
\* is still a node of both graphs.
C19_UnparseableFile == [](C19_NoContribution) /\ [][C19_Step]_vars

\* /r/p/b.py does not parse and /r/p/a.py imports p.b: the run has
\* reported a ranking that includes p.b, the edge from p.a to p.b is there,
\* and p.a is a symbol while p.b is none
C19_Witness ==
    /\ pc = "done"
    /\ outcome = "reported"
    /\ File_pb \in UnparsedFiles
    /\ <<Fqn_pa, Fqn_pb>> \in EdgePairs(G_imports)
    /\ Fqn_pb \in DOMAIN code_ranks
    /\ DictHas(python_symbols_db, Fqn_pa)
    /\ ~DictHas(python_symbols_db, Fqn_pb)

\* ------------------------------------------------------------------------
\* Properties of the processing order
\* ------------------------------------------------------------------------

\* the source files that have an identity, with that identity
IdentifiedFiles ==
    {pr \in {<<f_path, path_to_module_fqn(f_path, abs_repo_path)>> :
                 f_path \in all_py_files} : ~Falsy(pr[2])}

\* the (source, target) pairs the inputs determine, whatever the order:
\* one for every dependency identifier of every identified file that has
\* a target other than its source
DeterminedPairs ==
    UNION {{<<pr[2], DecidedTarget(id)>> :
               id \in {d \in get_imports_from_file(file_content[pr[1]],
                                                   pr[2]) :
                          /\ ~Falsy(DecidedTarget(d))
                          /\ DecidedTarget(d) # pr[2]}} :
           pr \in IdentifiedFiles}

\* the graphs the inputs determine
DeterminedImports ==
    [nodes |-> {pr[2] : pr \in IdentifiedFiles}
                   \cup specified_external_modules,
     edges |-> {<<pr[1], pr[2],
                  IF pr[2] \in specified_external_modules
                  THEN weight_external_import ELSE weight_internal>> :
                    pr \in DeterminedPairs}]
DeterminedImportedBy ==
    [nodes |-> DeterminedImports.nodes,
     edges |-> {<<pr[2], pr[1],
                  IF pr[2] \in specified_external_modules
                  THEN weight_external_dependency ELSE weight_internal>> :
                    pr \in DeterminedPairs}]

\* C21: the two finished graphs (nodes, edges and every weight) are the
\* same in every order in which the source files are processed and a
\* file's dependency identifiers are visited: they are the graphs the
\* inputs determine.
C21_OrderIndependent ==
    BuildFinished =>
        /\ G_imports = DeterminedImports
        /\ G_imported_by = DeterminedImportedBy

\* p.a imports p.b and e.t, p.b imports p.a, and e is an external target:
\* two files had dependencies and one of them two with a target, so that
\* both the order of the files and that of the dependencies could vary
C21_Witness ==
    /\ BuildFinished
    /\ EdgePairs(G_imports)
           = {<<Fqn_pa, Fqn_pb>>, <<Fqn_pa, Str_e>>, <<Fqn_pb, Fqn_pa>>}
    /\ weight_external_dependency # weight_internal

====
